---- MODULE Spec2Model ----
(***************************************************************************)
(* The bookings repository of skyride1:                                    *)
(*   src/src/integrations/supabase/bookings.ts  (the four operations)      *)
(*   src/unnamed/part_001                       (the bookings table, SQL)  *)
(* Every operation is one awaited request to the store.  A call is split   *)
(* at its await: <op>Call builds the request and puts it in flight,        *)
(* <op>Return is the store executing it atomically and the operation       *)
(* mapping the response to its result value.                               *)
(***************************************************************************)
EXTENDS Integers, Sequences, FiniteSets, TLC

VARIABLES
    table,      \* the rows of the bookings table (part_001)
    call,       \* per caller: the call it has in flight or has last completed
    saveLog,    \* history: per id, the outcomes of its first two inserts the store executed
    inserted,   \* history: the rows as they were when inserted
    lastUpd     \* history: per id, the status last written by an UPDATE that matched a row

vars == <<table, call, saveLog, inserted, lastUpd>>

----------------------------------------------------------------------------
(* Bounds of the model and program constants.                              *)

MaxTime == 2
MaxLimit == 2
DefaultLimit == 50

----------------------------------------------------------------------------
(* JavaScript values of the fields that pass through `||`.                 *)

Undefined == [t |-> "undefined"]
Null == [t |-> "null"]
Str(s) == [t |-> "string", v |-> s]
Num(n) == [t |-> "number", v |-> n]

\* ToBoolean(x) = false, for the kinds of value modelled
Falsy(x) ==
    \/ x.t \in {"undefined", "null"}
    \/ (x.t = "string" /\ x.v = "")
    \/ (x.t = "number" /\ x.v = 0)

\* x || y
Or(x, y) == IF Falsy(x) THEN y ELSE x

----------------------------------------------------------------------------
(* saveBooking: the row payload and its JSON body.                         *)
(* distance and fare are decimals counted in thousandths (12345 = 12.345); *)
(* parseFloat(n.toString()) returns n for every finite number n.           *)

parseFloatOfToString(n) == n

\* a faulty variant of bookingData: taxi_id and eta passed through without `|| null`
bookingDataNoNull(booking) ==
    [ id              |-> booking.id,
      user_name       |-> Or(booking.userName, Str("")),
      user_phone      |-> Or(booking.userPhone, Str("")),
      pickup_location |-> booking.startLocation,
      drop_location   |-> booking.endLocation,
      taxi_tier       |-> booking.tier,
      distance        |-> parseFloatOfToString(booking.distance),
      fare            |-> parseFloatOfToString(booking.fare),
      status          |-> booking.status,
      taxi_id         |-> booking.taxiId,
      eta             |-> booking.eta,
      timestamp       |-> booking.timestamp ]

bookingData(booking) ==
    [ id              |-> booking.id,
      user_name       |-> Or(booking.userName, Str("")),
      user_phone      |-> Or(booking.userPhone, Str("")),
      pickup_location |-> booking.startLocation,
      drop_location   |-> booking.endLocation,
      taxi_tier       |-> booking.tier,
      distance        |-> parseFloatOfToString(booking.distance),
      fare            |-> parseFloatOfToString(booking.fare),
      status          |-> booking.status,
      taxi_id         |-> Or(booking.taxiId, Null),
      eta             |-> Or(booking.eta, Null),
      timestamp       |-> booking.timestamp ]

\* the keys of bookingData whose value can be undefined
OptionalKeys == {"user_name", "user_phone", "taxi_id", "eta"}

\* .insert([bookingData]): the request body is JSON, and JSON.stringify leaves
\* out every key whose value is undefined
JsonBody(data) ==
    [ keys |-> (DOMAIN data) \ {k \in OptionalKeys : data[k] = Undefined},
      vals |-> data ]

----------------------------------------------------------------------------
(* The bookings table (part_001).                                          *)

ServerNow == "utc-now"

\* NUMERIC(10, 2): a value in thousandths rounded to hundredths, half away from zero
Numeric10_2(n) == ((n + 5) \div 10) * 10

\* a column the body leaves out takes its default (NULL for these columns)
Column(body, k) == IF k \in body.keys THEN body.vals[k] ELSE Null

\* the row INSERT builds from a request body
NewRow(body) ==
    [ id              |-> body.vals.id,
      user_name       |-> Column(body, "user_name"),
      user_phone      |-> Column(body, "user_phone"),
      pickup_location |-> body.vals.pickup_location,
      drop_location   |-> body.vals.drop_location,
      taxi_tier       |-> body.vals.taxi_tier,
      distance        |-> Numeric10_2(body.vals.distance),
      fare            |-> Numeric10_2(body.vals.fare),
      status          |-> body.vals.status,
      taxi_id         |-> Column(body, "taxi_id"),
      eta             |-> Column(body, "eta"),
      timestamp       |-> body.vals.timestamp,
      created_at      |-> ServerNow ]

\* user_name TEXT NOT NULL, user_phone TEXT NOT NULL
NotNullViolation(row) == row.user_name = Null \/ row.user_phone = Null

\* a faulty variant of PrimaryKeyViolation: a table without the primary key
PrimaryKeyNotEnforced(t, row) == FALSE

\* id TEXT PRIMARY KEY
PrimaryKeyViolation(t, row) == \E r \in t : r.id = row.id

DuplicateKeyMessage == "duplicate key value violates unique constraint \"bookings_pkey\""
NotNullMessage == "null value violates not-null constraint"

NoError == <<>>
ErrorOf(message) == <<[message |-> message]>>

\* INSERT of one row: the table afterwards and the error the client reports
StoreInsert(t, body) ==
    LET row == NewRow(body) IN
    IF NotNullViolation(row) THEN [table |-> t, error |-> ErrorOf(NotNullMessage)]
    ELSE IF PrimaryKeyViolation(t, row) THEN [table |-> t, error |-> ErrorOf(DuplicateKeyMessage)]
    ELSE [table |-> t \cup {row}, error |-> NoError]

\* a faulty variant of WhereUserPhone: the filter is dropped
WhereAnyPhone(t, userPhone) == t

\* .eq('user_phone', userPhone)
WhereUserPhone(t, userPhone) == {r \in t : r.user_phone = Str(userPhone)}

\* .order('timestamp', { ascending: false }): every listing of the rows the
\* store may return; rows of equal timestamp come in any order
OrderByTimestampDesc(rows) ==
    {s \in [1..Cardinality(rows) -> rows] :
        /\ \A i, j \in DOMAIN s : i # j => s[i] # s[j]
        /\ \A i, j \in DOMAIN s : i < j => s[i].timestamp >= s[j].timestamp}

\* a faulty variant of Limit: the limit is not applied
LimitIgnored(s, n) == s

\* .limit(limit), for limit > 0
Limit(s, n) == IF Len(s) <= n THEN s ELSE SubSeq(s, 1, n)

\* a faulty variant of StoreUpdate: the filter on id is dropped
StoreUpdateAllRows(t, bookingId, status) ==
    {[r EXCEPT !.status = status] : r \in t}

\* a faulty variant of StoreUpdate: a status once updated is not overwritten
StoreUpdateFirstWins(t, bookingId, status) ==
    {IF r.id = bookingId /\ r.status = "assigned" THEN [r EXCEPT !.status = status] ELSE r : r \in t}

\* a faulty variant of StoreUpdate: nothing is written
StoreUpdateNothing(t, bookingId, status) == t

\* .update({ status }).eq('id', bookingId)
StoreUpdate(t, bookingId, status) ==
    {IF r.id = bookingId THEN [r EXCEPT !.status = status] ELSE r : r \in t}

\* a faulty variant of UpdateError: matching no row is reported as an error
UpdateErrorWhenNoMatch(t, bookingId) ==
    IF \E r \in t : r.id = bookingId THEN NoError ELSE ErrorOf("no rows matched")

\* the error of an UPDATE the store executed: none, whether or not a row matched
UpdateError(t, bookingId) == NoError

----------------------------------------------------------------------------
(* Row to Booking (fetchUserBookings, fetchAllBookings).                   *)

toBooking(record) ==
    [ id            |-> record.id,
      startLocation |-> record.pickup_location,
      endLocation   |-> record.drop_location,
      tier          |-> record.taxi_tier,
      distance      |-> record.distance,
      fare          |-> record.fare,
      status        |-> record.status,
      taxiId        |-> record.taxi_id,
      eta           |-> record.eta,
      timestamp     |-> record.timestamp,
      userName      |-> record.user_name,
      userPhone     |-> record.user_phone ]

\* (data || []).map(...)
toBookings(data) == [i \in DOMAIN data |-> toBooking(data[i])]

----------------------------------------------------------------------------
(* Faults of one request, and what each operation makes of them.           *)

NoFault == [kind |-> "none"]
StoreError(message) == [kind |-> "error", message |-> message]
Thrown(value) == [kind |-> "throw", value |-> value]

ErrorValue(message) == [isError |-> TRUE, message |-> message]
OtherValue == [isError |-> FALSE]

\* error instanceof Error ? error.message : 'Unknown error'
CatchMessage(value) == IF value.isError THEN value.message ELSE "Unknown error"

\* the result of saveBooking and updateBookingStatus, from the error reported
WriteResult(error) ==
    IF error # NoError THEN [success |-> FALSE, error |-> error[1].message]
    ELSE [success |-> TRUE]

\* the result of the two fetch operations, from { data, error }
ReadResult(data, error) ==
    IF error # NoError THEN [bookings |-> <<>>, error |-> error[1].message]
    ELSE [bookings |-> toBookings(data)]

----------------------------------------------------------------------------
(* The inputs.                                                             *)

Callers == {"c1", "c2"}

MGRoad == [lat |-> 12, lng |-> 77, address |-> "MG Road"]
Airport == [lat |-> 13, lng |-> 78]

Booking(id, userName, userPhone, taxiId, eta, distance, timestamp) ==
    [ id            |-> id,
      startLocation |-> MGRoad,
      endLocation   |-> Airport,
      tier          |-> "standard",
      distance      |-> distance,
      fare          |-> 250000,
      status        |-> "assigned",
      taxiId        |-> taxiId,
      eta           |-> eta,
      timestamp     |-> timestamp,
      userName      |-> Str(userName),
      userPhone     |-> Str(userPhone) ]

\* bookings of one id that differ in the optional fields
MappingBookings ==
    {Booking("BK1", "", "555-0100", taxiId, eta, 12500, 1) :
        taxiId \in {Undefined, Str(""), Str("T-7")}, eta \in {Undefined, Num(0), Num(5)}}

\* bookings of two more ids that differ in user and time
ListingBookings ==
    {Booking("BK2", "Ravi", userPhone, Str("T-9"), Num(7), 8000, 1) :
        userPhone \in {"555-0100", "555-0199"}}
    \cup {Booking("BK3", "Ravi", "555-0100", Str("T-9"), Num(7), 8000, timestamp) :
        timestamp \in 1..MaxTime}

\* the inputs of one caller working alone
SeqBookings == MappingBookings \cup ListingBookings
SeqIds == {"BK1", "BK2", "BK3"}
SeqPhones == {"555-0100", "555-0199"}
SeqStatuses == {"completed"}
SeqLimits == {<<>>} \cup {<<n>> : n \in 1..MaxLimit}
SeqFaults == {NoFault, StoreError("upstream timeout"), Thrown(ErrorValue("Failed to fetch"))}

\* the inputs of two callers working at once
ConcBookings ==
    {Booking("BK2", "Ravi", "555-0100", Undefined, Num(7), 8000, 2),
     Booking("BK2", "Asha", "555-0199", Str("T-7"), Num(5), 8000, 2),
     Booking("BK3", "Ravi", "555-0100", Str("T-9"), Num(0), 8000, 1)}
ConcIds == {"BK2", "BK3"}
ConcPhones == {"555-0100"}
ConcStatuses == {"completed", "cancelled"}
ConcLimits == {<<1>>}
ConcFaults == {NoFault, StoreError(""), Thrown(OtherValue)}

AllIds == SeqIds \cup ConcIds

\* fetchAllBookings(limit: number = 50)
LimitOf(arg) == IF arg = <<>> THEN DefaultLimit ELSE arg[1]

----------------------------------------------------------------------------
(* The state machine.                                                      *)

Idle == [stage |-> "idle"]

Init ==
    /\ table = {}
    /\ call = [p \in Callers |-> Idle]
    /\ saveLog = [id \in AllIds |-> <<>>]
    /\ inserted = {}
    /\ lastUpd = [id \in AllIds |-> <<>>]

InFlight(p) == call[p].stage = "sent"

\* the calls once caller p has put a request in flight
Sent(p, request) == [call EXCEPT ![p] = [stage |-> "sent"] @@ request]

\* caller p resumes with the result of its request; it keeps the arguments
\* named by args, and raced records whether a request of the same operation
\* was in flight when the store executed this one
Resume(p, fault, args, result) ==
    call' = [call EXCEPT ![p] =
               [stage |-> "done", fault |-> fault.kind, result |-> result,
                raced |-> \E q \in Callers \ {p} : InFlight(q) /\ call[q].op = call[p].op]
               @@ [k \in args \cup {"op"} |-> call[p][k]]]

saveBookingCall(p, booking) ==
    /\ ~InFlight(p)
    /\ call' = Sent(p, [op |-> "saveBooking", id |-> booking.id, booking |-> booking,
                        body |-> JsonBody(bookingData(booking))])
    /\ UNCHANGED <<table, saveLog, inserted, lastUpd>>

saveBookingReturn(p, fault) ==
    /\ InFlight(p) /\ call[p].op = "saveBooking"
    /\ LET body == call[p].body
           id == body.vals.id
           resp == IF fault.kind = "error"
                   THEN [table |-> table, error |-> ErrorOf(fault.message)]
                   ELSE StoreInsert(table, body)
           result == IF fault.kind = "throw"
                     THEN [success |-> FALSE, error |-> CatchMessage(fault.value)]
                     ELSE WriteResult(resp.error)
       IN /\ table' = IF fault.kind = "none" THEN resp.table ELSE table
          /\ Resume(p, fault, {"id"}, result)
          /\ saveLog' = IF fault.kind = "none" /\ Len(saveLog[id]) < 2
                        THEN [saveLog EXCEPT ![id] = Append(@, result.success)]
                        ELSE saveLog
          /\ inserted' = IF fault.kind = "none" /\ result.success
                         THEN inserted \cup {[booking |-> call[p].booking, row |-> NewRow(body)]}
                         ELSE inserted
          /\ UNCHANGED lastUpd

fetchUserBookingsCall(p, userPhone) ==
    /\ ~InFlight(p)
    /\ call' = Sent(p, [op |-> "fetchUserBookings", userPhone |-> userPhone])
    /\ UNCHANGED <<table, saveLog, inserted, lastUpd>>

fetchUserBookingsReturn(p, fault) ==
    /\ InFlight(p) /\ call[p].op = "fetchUserBookings"
    /\ \E data \in OrderByTimestampDesc(WhereUserPhone(table, call[p].userPhone)) :
          LET result == IF fault.kind = "throw"
                        THEN [bookings |-> <<>>, error |-> CatchMessage(fault.value)]
                        ELSE IF fault.kind = "error"
                        THEN ReadResult(<<>>, ErrorOf(fault.message))
                        ELSE ReadResult(data, NoError)
          IN Resume(p, fault, {"userPhone"}, result)
    /\ UNCHANGED <<table, saveLog, inserted, lastUpd>>

fetchAllBookingsCall(p, limit) ==
    /\ ~InFlight(p)
    /\ call' = Sent(p, [op |-> "fetchAllBookings", limit |-> limit])
    /\ UNCHANGED <<table, saveLog, inserted, lastUpd>>

fetchAllBookingsReturn(p, fault) ==
    /\ InFlight(p) /\ call[p].op = "fetchAllBookings"
    /\ \E rows \in OrderByTimestampDesc(table) :
          LET data == Limit(rows, LimitOf(call[p].limit))
              result == IF fault.kind = "throw"
                        THEN [bookings |-> <<>>, error |-> CatchMessage(fault.value)]
                        ELSE IF fault.kind = "error"
                        THEN ReadResult(<<>>, ErrorOf(fault.message))
                        ELSE ReadResult(data, NoError)
          IN Resume(p, fault, {"limit"}, result)
    /\ UNCHANGED <<table, saveLog, inserted, lastUpd>>

updateBookingStatusCall(p, bookingId, status) ==
    /\ ~InFlight(p)
    /\ call' = Sent(p, [op |-> "updateBookingStatus", bookingId |-> bookingId, status |-> status])
    /\ UNCHANGED <<table, saveLog, inserted, lastUpd>>

updateBookingStatusReturn(p, fault) ==
    /\ InFlight(p) /\ call[p].op = "updateBookingStatus"
    /\ LET id == call[p].bookingId
           status == call[p].status
           matched == Cardinality({r \in table : r.id = id})
           error == IF fault.kind = "error" THEN ErrorOf(fault.message)
                    ELSE UpdateError(table, id)
           result == IF fault.kind = "throw"
                     THEN [success |-> FALSE, error |-> CatchMessage(fault.value)]
                     ELSE WriteResult(error)
       IN /\ table' = IF fault.kind = "none" THEN StoreUpdate(table, id, status) ELSE table
          /\ Resume(p, fault, {"bookingId", "status"}, result)
          /\ lastUpd' = IF fault.kind = "none" /\ matched > 0
                        THEN [lastUpd EXCEPT ![id] = <<status>>]
                        ELSE lastUpd
          /\ UNCHANGED <<saveLog, inserted>>

\* two callers, their requests interleaved at the store
Next ==
    \E p \in Callers :
        \/ \E booking \in ConcBookings : saveBookingCall(p, booking)
        \/ \E userPhone \in ConcPhones : fetchUserBookingsCall(p, userPhone)
        \/ \E limit \in ConcLimits : fetchAllBookingsCall(p, limit)
        \/ \E id \in ConcIds, status \in ConcStatuses : updateBookingStatusCall(p, id, status)
        \/ \E fault \in ConcFaults :
              \/ saveBookingReturn(p, fault)
              \/ fetchUserBookingsReturn(p, fault)
              \/ fetchAllBookingsReturn(p, fault)
              \/ updateBookingStatusReturn(p, fault)

Spec == Init /\ [][Next]_vars

\* one caller, one call after another
SeqNext ==
    \/ \E booking \in SeqBookings : saveBookingCall("c1", booking)
    \/ \E userPhone \in SeqPhones : fetchUserBookingsCall("c1", userPhone)
    \/ \E limit \in SeqLimits : fetchAllBookingsCall("c1", limit)
    \/ \E id \in SeqIds, status \in SeqStatuses : updateBookingStatusCall("c1", id, status)
    \/ \E fault \in SeqFaults :
          \/ saveBookingReturn("c1", fault)
          \/ fetchUserBookingsReturn("c1", fault)
          \/ fetchAllBookingsReturn("c1", fault)
          \/ updateBookingStatusReturn("c1", fault)

SeqSpec == Init /\ [][SeqNext]_vars

----------------------------------------------------------------------------
(* Vocabulary of the properties.                                           *)

Done(p) == call[p].stage = "done"
DoneOp(p, op) == Done(p) /\ call[p].op = op
Succeeded(result) == "error" \notin DOMAIN result
Reads == {"fetchUserBookings", "fetchAllBookings"}

\* the step in which caller p resumes with a result
Returns(p) == InFlight(p) /\ call'[p].stage = "done"

RowsOf(id) == {r \in table : r.id = id}

NonIncreasing(bookings) ==
    \A i, j \in DOMAIN bookings : i < j => bookings[i].timestamp >= bookings[j].timestamp

Min(a, b) == IF a <= b THEN a ELSE b

----------------------------------------------------------------------------
(* C1: whenever a request fails (the store reports an error, or an         *)
(* exception is raised), the operation returns its failure result          *)
(* ({success: false, error} or {bookings: [], error}) and the error is a   *)
(* non-empty string.                                                       *)
FailureHasMessage ==
    \A p \in Callers :
        Done(p) /\ call[p].fault # "none" =>
            /\ "error" \in DOMAIN call[p].result
            /\ call[p].result.error # ""
            /\ IF call[p].op \in Reads
               THEN call[p].result.bookings = <<>>
               ELSE call[p].result.success = FALSE

----------------------------------------------------------------------------
(* C2: of two saveBooking calls with the same id that the store executes,  *)
(* exactly one returns success and the other a failure with an error, and  *)
(* the table never holds two rows with one id.                             *)
SaveTwiceOneSuccess ==
    /\ \A id \in AllIds : Cardinality(RowsOf(id)) <= 1
    /\ \A id \in AllIds :
          Len(saveLog[id]) = 2 =>
              Cardinality({i \in 1..2 : saveLog[id][i]}) = 1
    /\ \A p \in Callers :
          DoneOp(p, "saveBooking") /\ call[p].fault = "none" /\ ~call[p].result.success =>
              "error" \in DOMAIN call[p].result /\ call[p].result.error # ""

\* two interleaved saves of one id have both returned
SaveTwiceWitness ==
    \E p, q \in Callers :
        /\ p # q
        /\ DoneOp(p, "saveBooking") /\ DoneOp(q, "saveBooking")
        /\ call[p].id = call[q].id
        /\ call[p].fault = "none" /\ call[q].fault = "none"
        /\ call[p].raced
        /\ Len(saveLog[call[p].id]) = 2
        /\ call[p].result.success # call[q].result.success

----------------------------------------------------------------------------
Unset(x) == x \in {Undefined, Null}
SameOptional(x, y) == x = y \/ (Unset(x) /\ Unset(y))

(* C3: a booking saved and read back equals the booking that was saved in  *)
(* every field (the status too, while no update has changed it); an unset  *)
(* taxiId or eta may read back as null.                                    *)
RoundTripLossless ==
    \A p \in Callers :
        Done(p) /\ call[p].op \in Reads /\ Succeeded(call[p].result) =>
            \A i \in DOMAIN call[p].result.bookings :
                LET b == call[p].result.bookings[i] IN
                \A e \in inserted :
                    e.booking.id = b.id /\ lastUpd[b.id] = <<>> =>
                        /\ [b EXCEPT !.taxiId = e.booking.taxiId, !.eta = e.booking.eta] = e.booking
                        /\ SameOptional(b.taxiId, e.booking.taxiId)
                        /\ SameOptional(b.eta, e.booking.eta)

----------------------------------------------------------------------------
(* C4: the payload saveBooking sends always holds the keys taxi_id and     *)
(* eta, and their value is null when the booking leaves the field unset.   *)
UnsetIsExplicitNull ==
    \A p \in Callers :
        InFlight(p) /\ call[p].op = "saveBooking" =>
            /\ {"taxi_id", "eta"} \subseteq call[p].body.keys
            /\ call[p].booking.taxiId = Undefined => call[p].body.vals.taxi_id = Null
            /\ call[p].booking.eta = Undefined => call[p].body.vals.eta = Null

\* a booking with neither taxiId nor eta is on its way to the store
UnsetIsExplicitNullWitness ==
    \E p \in Callers :
        /\ InFlight(p) /\ call[p].op = "saveBooking"
        /\ call[p].booking.taxiId = Undefined
        /\ call[p].booking.eta = Undefined

----------------------------------------------------------------------------
(* C5: a successful fetchUserBookings(p) returns exactly the bookings of   *)
(* the rows whose user_phone is p, each once, most recent first.           *)
UserBookingsExact ==
    \A p \in Callers :
        DoneOp(p, "fetchUserBookings") /\ Succeeded(call[p].result) =>
            LET bookings == call[p].result.bookings
                phone == Str(call[p].userPhone)
            IN /\ \A i \in DOMAIN bookings :
                      /\ bookings[i].userPhone = phone
                      /\ \E r \in table : r.id = bookings[i].id /\ r.user_phone = phone
               /\ \A r \in table :
                      r.user_phone = phone => \E i \in DOMAIN bookings : bookings[i].id = r.id
               /\ Len(bookings) = Cardinality({r \in table : r.user_phone = phone})
               /\ NonIncreasing(bookings)

\* a fetch returned two bookings of different times and left out another user's row
UserBookingsWitness ==
    \E p \in Callers :
        /\ DoneOp(p, "fetchUserBookings") /\ Succeeded(call[p].result)
        /\ Len(call[p].result.bookings) >= 2
        /\ call[p].result.bookings[1].timestamp > call[p].result.bookings[2].timestamp
        /\ \E r \in table : r.user_phone # Str(call[p].userPhone)

----------------------------------------------------------------------------
(* C6: a successful fetchAllBookings(n), n > 0 and 50 when omitted,        *)
(* returns min(n, number of rows) bookings, most recent first, and none of *)
(* the rows left out is more recent than a booking returned.               *)
RecentBookingsTopN ==
    \A p \in Callers :
        DoneOp(p, "fetchAllBookings") /\ Succeeded(call[p].result) =>
            LET bookings == call[p].result.bookings
                n == IF call[p].limit = <<>> THEN 50 ELSE call[p].limit[1]
                returned == {bookings[i].id : i \in DOMAIN bookings}
            IN /\ Len(bookings) = Min(n, Cardinality(table))
               /\ Cardinality(returned) = Len(bookings)
               /\ \A i \in DOMAIN bookings : \E r \in table : r.id = bookings[i].id
               /\ NonIncreasing(bookings)
               /\ \A i \in DOMAIN bookings : \A r \in table :
                      r.id \notin returned => bookings[i].timestamp >= r.timestamp

\* a fetch with a limit below the number of rows left out an older row
RecentBookingsWitness ==
    \E p \in Callers :
        /\ DoneOp(p, "fetchAllBookings") /\ Succeeded(call[p].result)
        /\ call[p].limit # <<>>
        /\ Len(call[p].result.bookings) = call[p].limit[1]
        /\ \E r \in table :
              /\ \A i \in DOMAIN call[p].result.bookings : call[p].result.bookings[i].id # r.id
              /\ r.timestamp < call[p].result.bookings[1].timestamp

----------------------------------------------------------------------------
(* C7: once an update of an existing id has written status s, every fetch  *)
(* that succeeds afterwards shows s for that id, until another update of   *)
(* the id is executed.                                                     *)
StatusReadBack ==
    [][\A p \in Callers :
          Returns(p) /\ call[p].op \in Reads /\ Succeeded(call'[p].result) =>
              \A i \in DOMAIN call'[p].result.bookings :
                  LET b == call'[p].result.bookings[i] IN
                  lastUpd[b.id] # <<>> => b.status = lastUpd[b.id][1]]_vars

\* a fetch returned a booking with the status an update gave it
StatusReadBackWitness ==
    \E p \in Callers :
        /\ Done(p) /\ call[p].op \in Reads /\ Succeeded(call[p].result)
        /\ \E i \in DOMAIN call[p].result.bookings :
              LET b == call[p].result.bookings[i] IN
              /\ lastUpd[b.id] = <<b.status>>
              /\ b.status = "completed"

----------------------------------------------------------------------------
SameButStatus(r1, r2) == [r1 EXCEPT !.status = r2.status] = r2

InsertedRowsKept ==
    \A e \in inserted : \E r \in table : SameButStatus(r, e.row)

FrameStep ==
    /\ \A r \in table : \E r2 \in table' : SameButStatus(r2, r)
    /\ \A p \in Callers :
          /\ ~InFlight(p) /\ InFlight(p)' => table' = table
          /\ Returns(p) /\ call[p].op \in Reads => table' = table
          /\ Returns(p) /\ call[p].op = "updateBookingStatus" =>
                /\ Cardinality(table') = Cardinality(table)
                /\ \A r \in table : r.id # call[p].bookingId => r \in table'

(* C8: every row once inserted stays in the table with every field but     *)
(* status as inserted; an update leaves the rows of other ids as they      *)
(* were, a fetch leaves the table as it was, and no step removes a row.    *)
OnlyStatusChanges == []InsertedRowsKept /\ [][FrameStep]_vars

\* an update changed the status of one inserted row while another row kept its own
OnlyStatusChangesWitness ==
    \E e1, e2 \in inserted :
        /\ e1.row.id # e2.row.id
        /\ e1.row \notin table
        /\ e2.row \in table
        /\ \E p \in Callers : DoneOp(p, "updateBookingStatus") /\ call[p].bookingId = e1.row.id

----------------------------------------------------------------------------
(* C9: an update the store executes without error returns {success: true}  *)
(* with no error whether or not a row matched, and when none matched the   *)
(* table is left as it was.                                                *)
UpdateOfNoRowSucceeds ==
    [][\A p \in Callers :
          Returns(p) /\ call[p].op = "updateBookingStatus" /\ call'[p].fault = "none" =>
              /\ call'[p].result = [success |-> TRUE]
              /\ RowsOf(call[p].bookingId) = {} => table' = table]_vars

\* an update of an id that has no row has returned success
UpdateOfNoRowWitness ==
    \E p \in Callers :
        /\ DoneOp(p, "updateBookingStatus") /\ call[p].fault = "none"
        /\ RowsOf(call[p].bookingId) = {}
        /\ call[p].result = [success |-> TRUE]

----------------------------------------------------------------------------
(* C10: when two updates of one existing id have both been executed        *)
(* without error, both returned {success: true} and the status of the row  *)
(* is the one the store wrote last, which is one of the two.               *)
LastUpdateWins ==
    \A p, q \in Callers :
        /\ p # q
        /\ DoneOp(p, "updateBookingStatus") /\ DoneOp(q, "updateBookingStatus")
        /\ call[p].bookingId = call[q].bookingId
        /\ call[p].fault = "none" /\ call[q].fault = "none"
        /\ lastUpd[call[p].bookingId] # <<>>
        => /\ call[p].result = [success |-> TRUE] /\ call[q].result = [success |-> TRUE]
           /\ \A r \in RowsOf(call[p].bookingId) :
                 /\ r.status = lastUpd[r.id][1]
                 /\ r.status \in {call[p].status, call[q].status}

\* two updates of one row with different statuses raced at the store, both
\* returned, and the row has the status of the one executed second
LastUpdateWinsWitness ==
    \E p, q \in Callers :
        /\ p # q
        /\ DoneOp(p, "updateBookingStatus") /\ DoneOp(q, "updateBookingStatus")
        /\ call[p].bookingId = call[q].bookingId
        /\ call[p].status # call[q].status
        /\ call[p].fault = "none" /\ call[q].fault = "none"
        /\ call[p].raced
        /\ \E r \in RowsOf(call[p].bookingId) : r.status = call[q].status

====
